---- MODULE Spec2Model ----
(***************************************************************************)
(* A model of the pyrogram_optimized runtime: the TTL + LRU result cache   *)
(* (OptimizedCache), the connection pool (ConnectionPool) and the request  *)
(* batching of OptimizedSession.  Time is a discrete clock `now`; every    *)
(* read of time.time() in the source reads `now`.                          *)
(*                                                                         *)
(* The three components share no state in the source, so each has its own  *)
(* specification (SpecCache, SpecPool, SpecBatch) over the one set of      *)
(* variables; a component's actions leave the other components unchanged.  *)
(***************************************************************************)
EXTENDS Integers, Sequences, FiniteSets, TLC

VARIABLES
    now,                   \* time.time(), in ticks
    \* ---- OptimizedCache (client_optimized.py)
    max_size,              \* OptimizedCache.max_size
    cache,                 \* OptimizedCache.cache: key -> [value, timestamp]
    access_order,          \* OptimizedCache.access_order (deque, oldest first)
    cacheOp,               \* history: the last cache call and what it returned
    setHist,               \* history: per key, the last set and keys touched since
    touchLog,              \* history: keys by last touch, most recent last
    \* ---- ConnectionPool (client_optimized.py)
    max_connections,       \* config.max_connections
    min_connections,       \* config.min_connections
    active_connections,    \* ConnectionPool.active_connections: its keys, in dict order
    conn_dc,               \* Connection.dc_id of every connection created (0: none yet)
    connection_stats,      \* ConnectionPool.connection_stats: id -> [last_used, usage_count]
    available_connections, \* ConnectionPool.available_connections (deque)
    lock,                  \* ConnectionPool.lock: "free" or the task that holds it
    closed,                \* connections on which close() has run
    pc,                    \* position of every caller task
    held,                  \* the connection get_connection returned to a caller
    arg,                   \* the argument of a caller's current call
    sweep,                 \* the cleanup_idle_connections call: position and locals
    nextConn,              \* how many connections were constructed so far, plus one
    \* ---- OptimizedSession batching (session_optimized.py)
    current_batch,         \* OptimizedSession.current_batch: a batch id, 0 for None
    batches,               \* every RequestBatch constructed: [requests, created_at]
    future,                \* the asyncio.Future of every _send_batched call
    spc,                   \* position of every _send_batched call
    proc,                  \* the _process_batch call each task is suspended in
    flusher,               \* the _batch_processor task: position and wake-up time
    \* ---- OptimizedConnection (connection_optimized.py)
    connection_quality,    \* OptimizedConnection.connection_quality, in 1/QScale
    consecutive_errors,    \* OptimizedConnection.consecutive_errors
    is_healthy,            \* OptimizedConnection.is_healthy
    last_activity,         \* metrics.last_activity, in ticks (0: never)
    keepalive_task,        \* OptimizedConnection.keepalive_task
    protocol,              \* the transport of OptimizedConnection.protocol
    connect,               \* the connect() call: position, attempt, how it ended
    lastOp,                \* history: the last send/recv/handshake outcome
    close_call,            \* the close() call: its position
    last_ping,             \* OptimizedConnection.last_ping, in ticks
    \* ---- ClientOptimized (client_optimized.py)
    client,                \* start()/stop() and the background tasks
    degraded,              \* pooled connections that failed 4 times in a row
    calls,                 \* the ClientOptimized.invoke calls
    \* ---- OptimizedSession (session_optimized.py)
    session,               \* start()/stop() and the two background tasks
    adaptive_wait_timeout, \* OptimizedSession.adaptive_wait_timeout, in ms
    response_times,        \* OptimizedSession.response_times (deque), in ms
    flood_wait_history,    \* the timestamps of OptimizedSession.flood_wait_history
    metrics,               \* SessionMetrics: the three counters send updates
    error_backoff,         \* OptimizedSession.error_backoff, in ms
    sends,                 \* the OptimizedSession.send calls
    hm_rounds              \* how many rounds the health monitor has made

cacheVars == <<max_size, cache, access_order, cacheOp, setHist, touchLog>>
poolVars == <<max_connections, min_connections, active_connections, conn_dc,
              connection_stats, available_connections, lock, closed, pc, held,
              arg, sweep, nextConn>>
batchVars == <<current_batch, batches, future, spc, proc, flusher>>
connVars == <<connection_quality, consecutive_errors, is_healthy, last_activity,
              keepalive_task, protocol, connect, lastOp, close_call, last_ping>>
clientVars == <<client, degraded, calls>>
sessVars == <<session, adaptive_wait_timeout, response_times, flood_wait_history,
              metrics, error_backoff, sends, hm_rounds>>
vars == <<now, cacheVars, poolVars, batchVars, connVars, clientVars, sessVars>>

----------------------------------------------------------------------------
(* Bounds of the model. *)
MaxCacheSize == 2          \* max_size ranges over 1..MaxCacheSize
CacheTtl == 2              \* OptimizedCache.ttl, in ticks
CacheMaxTime == 3          \* the cache runs are cut at this clock value

Keys == {"a", "b", "c"}
Values == 1..2
None == 0                  \* Python's None (no value is 0)

----------------------------------------------------------------------------
(* Sequence helpers (collections.deque). *)

\* index of the first occurrence of x in s, 0 when absent
RECURSIVE IndexFrom(_, _, _)
IndexFrom(s, x, i) ==
    IF i > Len(s) THEN 0
    ELSE IF s[i] = x THEN i ELSE IndexFrom(s, x, i + 1)

IndexOf(s, x) == IndexFrom(s, x, 1)

\* deque.remove(x): drops the first occurrence of x
DequeRemove(s, x) ==
    LET i == IndexOf(s, x) IN
    IF i = 0 THEN s
    ELSE [j \in 1..(Len(s) - 1) |-> IF j < i THEN s[j] ELSE s[j + 1]]

SeqToSet(s) == {s[i] : i \in 1..Len(s)}

\* dict restricted to the keys other than k (del d[k])
DictDel(d, k) == [x \in (DOMAIN d) \ {k} |-> d[x]]

\* d[k] = e
DictPut(d, k, e) == [x \in (DOMAIN d) \cup {k} |-> IF x = k THEN e ELSE d[x]]

----------------------------------------------------------------------------
(* OptimizedCache *)

\* the freshness test of get: time.time() - entry['timestamp'] < self.ttl
IsFresh(entry, t) == t - entry.timestamp < CacheTtl

\* get on a fresh entry: the entry itself is left as it is
RefreshOnHit(c, k, t) == [c EXCEPT ![k].timestamp = t]
HitEntry(c, k, t) == c

\* get on a fresh entry: move the key to the most-recently-used end
NoMoveOnHit(ord, k) == ord
MoveToEnd(ord, k) == Append(DequeRemove(ord, k), k)

\* the eviction loop of set: while len(cache) > max_size: popleft, del
NoEvict(c, ord, m) == [cache |-> c, access_order |-> ord]
RECURSIVE EvictNewest(_, _, _)
EvictNewest(c, ord, m) ==
    IF Cardinality(DOMAIN c) > m /\ ord # <<>>
    THEN EvictNewest(DictDel(c, ord[Len(ord)]), SubSeq(ord, 1, Len(ord) - 1), m)
    ELSE [cache |-> c, access_order |-> ord]
RECURSIVE Evict(_, _, _)
Evict(c, ord, m) ==
    IF Cardinality(DOMAIN c) > m /\ ord # <<>>
    THEN Evict(DictDel(c, Head(ord)), Tail(ord), m)
    ELSE [cache |-> c, access_order |-> ord]

\* OptimizedCache.get as a function of the state: new cache, new order, result
CacheGetResult(c, ord, k, t) ==
    IF k \in DOMAIN c
    THEN IF IsFresh(c[k], t)
         THEN [cache |-> HitEntry(c, k, t), access_order |-> MoveToEnd(ord, k),
               ret |-> c[k].value]
         ELSE [cache |-> DictDel(c, k), access_order |-> DequeRemove(ord, k),
               ret |-> None]
    ELSE [cache |-> c, access_order |-> ord, ret |-> None]

\* set: if key in self.cache: self.access_order.remove(key)
KeepIfExists(c, ord, k) == ord
RemoveIfExists(c, ord, k) == IF k \in DOMAIN c THEN DequeRemove(ord, k) ELSE ord

\* OptimizedCache.set as a function of the state
CacheSetResult(c, ord, k, v, t, m) ==
    LET ord1 == RemoveIfExists(c, ord, k)
        c1 == DictPut(c, k, [value |-> v, timestamp |-> t])
    IN Evict(c1, Append(ord1, k), m)

\* history: key k was touched (a set, or a get that hit) at this call
Touch(log, k) == Append(DequeRemove(log, k), k)
NoteTouch(h, k) ==
    [x \in Keys |-> IF x = k THEN h[x]
                    ELSE [h[x] EXCEPT !.since = h[x].since \cup {k}]]

CacheGet(k) ==
    LET r == CacheGetResult(cache, access_order, k, now) IN
    /\ cache' = r.cache
    /\ access_order' = r.access_order
    /\ cacheOp' = [op |-> "get", key |-> k, ret |-> r.ret, at |-> now]
    /\ setHist' = IF r.ret # None THEN NoteTouch(setHist, k) ELSE setHist
    /\ touchLog' = IF r.ret # None THEN Touch(touchLog, k) ELSE touchLog
    /\ UNCHANGED <<now, connVars, clientVars, max_size, poolVars, batchVars, sessVars>>

CacheSet(k, v) ==
    LET r == CacheSetResult(cache, access_order, k, v, now, max_size) IN
    /\ cache' = r.cache
    /\ access_order' = r.access_order
    /\ cacheOp' = [op |-> "set", key |-> k, ret |-> None, at |-> now]
    /\ setHist' = [NoteTouch(setHist, k) EXCEPT
                      ![k] = [val |-> v, at |-> now, since |-> {}]]
    /\ touchLog' = Touch(touchLog, k)
    /\ UNCHANGED <<now, connVars, clientVars, max_size, poolVars, batchVars, sessVars>>

CacheTick ==
    /\ now < CacheMaxTime
    /\ now' = now + 1
    /\ UNCHANGED <<connVars, clientVars, cacheVars, poolVars, batchVars, sessVars>>

----------------------------------------------------------------------------
(* ConnectionPool *)

MaxPoolSize == 2           \* max_connections ranges over 1..MaxPoolSize
PoolMaxTime == 2           \* the pool runs are cut at this clock value
MaxConnIds == 2            \* at most this many connections are ever constructed
MaxQueue == 2              \* release is not called once the queue is this long
IdleTimeout == 1           \* config.idle_timeout: the pool's clock ticks once per idle_timeout
ReuseCeiling == 2          \* the reuse ceiling of get_connection (100, scaled down)
MinChoices == {0, 1}       \* the values of config.min_connections tried

Callers == {"t1", "t2"}
DCs == {1, 2}
ConnIds == 1..MaxConnIds
NoConn == 0

\* connection_stats is a defaultdict: a missing id reads as a fresh record
StatsOf(stats, c, t) ==
    IF c \in DOMAIN stats THEN stats[c] ELSE [last_used |-> t, usage_count |-> 0]

\* the reuse test of get_connection for one active connection
Reusable(stats, dcs, c, dc, t) ==
    /\ dcs[c] = dc
    /\ StatsOf(stats, c, t).usage_count < ReuseCeiling

\* the first active connection, in dict order, that passes the reuse test
FirstReusable(act, stats, dcs, dc, t) ==
    LET ok == {i \in 1..Len(act) : Reusable(stats, dcs, act[i], dc, t)} IN
    IF ok = {} THEN NoConn
    ELSE act[CHOOSE i \in ok : \A j \in ok : i <= j]

\* if len(self.active_connections) < self.config.max_connections
AtOrUnderLimit(n, m) == n <= m
UnderLimit(n, m) == n < m

\* Lock.acquire: a free lock is taken without suspending
LockFree == lock = "free"

\* `async with self.lock` left by an exception of task t: the lock is released
LockLeaked(t) == t
LockAfterError(t) == "free"

\* get_connection, from the call to its first suspension or its return
GetConnection(t, dc) ==
    /\ pc[t] \in {"idle", "failed"}
    /\ LockFree
    /\ LET c == FirstReusable(active_connections, connection_stats, conn_dc, dc, now) IN
       IF c # NoConn
       THEN \* reuse: stamp, count, return
            /\ connection_stats' = DictPut(connection_stats, c,
                   [last_used |-> now,
                    usage_count |-> StatsOf(connection_stats, c, now).usage_count + 1])
            /\ pc' = [pc EXCEPT ![t] = "holding"]
            /\ held' = [held EXCEPT ![t] = c]
            /\ UNCHANGED <<lock, arg, available_connections>>
       ELSE IF UnderLimit(Len(active_connections), max_connections)
       THEN \* await conn.connect(), with the lock held
            /\ nextConn <= MaxConnIds
            /\ lock' = t
            /\ pc' = [pc EXCEPT ![t] = "connecting"]
            /\ arg' = [arg EXCEPT ![t] = dc]
            /\ UNCHANGED <<connection_stats, held, available_connections>>
       ELSE IF available_connections # <<>>
       THEN \* the wait loop is skipped: popleft and return
            /\ available_connections' = Tail(available_connections)
            /\ pc' = [pc EXCEPT ![t] = "holding"]
            /\ held' = [held EXCEPT ![t] = Head(available_connections)]
            /\ UNCHANGED <<lock, arg, connection_stats>>
       ELSE \* await asyncio.sleep(0.1), with the lock held
            /\ lock' = t
            /\ pc' = [pc EXCEPT ![t] = "waiting"]
            /\ arg' = [arg EXCEPT ![t] = dc]
            /\ UNCHANGED <<connection_stats, held, available_connections>>
    /\ UNCHANGED <<now, connVars, clientVars, cacheVars, batchVars, sessVars,
                   max_connections, min_connections,
                   active_connections, conn_dc, closed, sweep, nextConn>>

\* conn.connect() returned: the connection enters the active set
ConnectDone(t) ==
    /\ pc[t] = "connecting"
    /\ LET c == nextConn IN
       /\ conn_dc' = [conn_dc EXCEPT ![c] = arg[t]]
       /\ active_connections' = Append(active_connections, c)
       /\ connection_stats' = DictPut(connection_stats, c,
              [last_used |-> now, usage_count |-> 0])
       /\ held' = [held EXCEPT ![t] = c]
    /\ nextConn' = nextConn + 1
    /\ lock' = "free"
    /\ pc' = [pc EXCEPT ![t] = "holding"]
    /\ arg' = [arg EXCEPT ![t] = 0]
    /\ UNCHANGED <<now, connVars, clientVars, cacheVars, batchVars, sessVars,
                   max_connections, min_connections,
                   available_connections, closed, sweep>>

\* conn.connect() raised: the error leaves get_connection, the lock is released
ConnectFail(t) ==
    /\ pc[t] = "connecting"
    /\ lock' = LockAfterError(t)
    /\ pc' = [pc EXCEPT ![t] = "failed"]
    /\ arg' = [arg EXCEPT ![t] = 0]
    /\ UNCHANGED <<now, connVars, clientVars, cacheVars, batchVars, sessVars,
                   max_connections, min_connections,
                   active_connections, conn_dc, connection_stats,
                   available_connections, closed, held, sweep, nextConn>>

\* one round of `while not self.available_connections: await asyncio.sleep(0.1)`
WaitPoll(t) ==
    /\ pc[t] = "waiting"
    /\ IF available_connections = <<>>
       THEN UNCHANGED <<available_connections, pc, held, lock, arg>>
       ELSE /\ available_connections' = Tail(available_connections)
            /\ held' = [held EXCEPT ![t] = Head(available_connections)]
            /\ pc' = [pc EXCEPT ![t] = "holding"]
            /\ arg' = [arg EXCEPT ![t] = 0]
            /\ lock' = "free"
    /\ UNCHANGED <<now, connVars, clientVars, cacheVars, batchVars, sessVars,
                   max_connections, min_connections,
                   active_connections, conn_dc, connection_stats, closed,
                   sweep, nextConn>>

\* if conn_id in self.active_connections
PooledAlways(act, c) == TRUE
Pooled(act, c) == c \in SeqToSet(act)

\* a caller calls release_connection on the connection it was given
ReleaseCall(t) ==
    /\ pc[t] = "holding"
    /\ Len(available_connections) < MaxQueue
    /\ pc' = [pc EXCEPT ![t] = "releasing"]
    /\ arg' = [arg EXCEPT ![t] = held[t]]
    /\ held' = [held EXCEPT ![t] = NoConn]
    /\ UNCHANGED <<now, connVars, clientVars, cacheVars, batchVars, sessVars,
                   max_connections, min_connections,
                   active_connections, conn_dc, connection_stats,
                   available_connections, lock, closed, sweep, nextConn>>

\* release_connection, once it has the lock
ReleaseRun(t) ==
    /\ pc[t] = "releasing"
    /\ LockFree
    /\ IF Pooled(active_connections, arg[t])
       THEN /\ available_connections' = Append(available_connections, arg[t])
            /\ connection_stats' = DictPut(connection_stats, arg[t],
                   [StatsOf(connection_stats, arg[t], now) EXCEPT !.last_used = now])
       ELSE UNCHANGED <<available_connections, connection_stats>>
    /\ pc' = [pc EXCEPT ![t] = "idle"]
    /\ arg' = [arg EXCEPT ![t] = 0]
    /\ UNCHANGED <<now, connVars, clientVars, cacheVars, batchVars, sessVars,
                   max_connections, min_connections,
                   active_connections, conn_dc, lock, closed, held, sweep,
                   nextConn>>

\* ids in increasing order (connection_stats is filled in creation order)
RECURSIVE SortedIds(_)
SortedIds(S) ==
    IF S = {} THEN <<>>
    ELSE LET m == CHOOSE x \in S : \A y \in S : x <= y IN <<m>> \o SortedIds(S \ {m})

\* the first loop of cleanup_idle_connections: the ids to remove
SweepCandidates(stats, nActive, current_time, minConn) ==
    {c \in DOMAIN stats :
        /\ current_time - stats[c].last_used > IdleTimeout
        /\ nActive > minConn}

\* cleanup_idle_connections is called: current_time = time.time()
SweepCall ==
    /\ sweep.pc = "idle"
    /\ sweep' = [sweep EXCEPT !.pc = "lockwait", !.current_time = now]
    /\ UNCHANGED <<now, connVars, clientVars, cacheVars, batchVars, sessVars,
                   max_connections, min_connections,
                   active_connections, conn_dc, connection_stats,
                   available_connections, lock, closed, pc, held, arg, nextConn>>

\* it takes the lock and collects to_remove
SweepLock ==
    /\ sweep.pc = "lockwait"
    /\ LockFree
    /\ lock' = "sweeper"
    /\ sweep' = [sweep EXCEPT
           !.pc = "removing",
           !.before = Len(active_connections),
           !.to_remove = SortedIds(SweepCandidates(connection_stats,
                             Len(active_connections), sweep.current_time,
                             min_connections))]
    /\ UNCHANGED <<now, connVars, clientVars, cacheVars, batchVars, sessVars,
                   max_connections, min_connections,
                   active_connections, conn_dc, connection_stats,
                   available_connections, closed, pc, held, arg, nextConn>>

\* one round of the second loop: pop, await conn.close(), del the stats
SweepRemove ==
    /\ sweep.pc = "removing"
    /\ sweep.to_remove # <<>>
    /\ LET c == Head(sweep.to_remove) IN
       IF c \in SeqToSet(active_connections)
       THEN /\ active_connections' = DequeRemove(active_connections, c)
            /\ closed' = closed \cup {c}
            /\ connection_stats' = DictDel(connection_stats, c)
       ELSE UNCHANGED <<active_connections, closed, connection_stats>>
    /\ sweep' = [sweep EXCEPT !.to_remove = Tail(sweep.to_remove)]
    /\ UNCHANGED <<now, connVars, clientVars, cacheVars, batchVars, sessVars,
                   max_connections, min_connections, conn_dc,
                   available_connections, lock, pc, held, arg, nextConn>>

\* the loop is over: the lock is released and the call returns
SweepEnd ==
    /\ sweep.pc = "removing"
    /\ sweep.to_remove = <<>>
    /\ lock' = "free"
    /\ sweep' = [sweep EXCEPT !.pc = "idle", !.current_time = 0, !.before = 0]
    /\ UNCHANGED <<now, connVars, clientVars, cacheVars, batchVars, sessVars,
                   max_connections, min_connections,
                   active_connections, conn_dc, connection_stats,
                   available_connections, closed, pc, held, arg, nextConn>>

PoolTick ==
    /\ now < PoolMaxTime
    /\ now' = now + 1
    /\ UNCHANGED <<connVars, clientVars, cacheVars, poolVars, batchVars, sessVars>>

InitPoolState ==
    /\ active_connections = <<>>
    /\ conn_dc = [c \in ConnIds |-> 0]
    /\ connection_stats = <<>>
    /\ available_connections = <<>>
    /\ lock = "free"
    /\ closed = {}
    /\ pc = [t \in Callers |-> "idle"]
    /\ held = [t \in Callers |-> NoConn]
    /\ arg = [t \in Callers |-> 0]
    /\ sweep = [pc |-> "idle", current_time |-> 0, to_remove |-> <<>>,
                before |-> 0]
    /\ nextConn = 1

CallerStep(t) ==
    \/ \E dc \in DCs : GetConnection(t, dc)
    \/ ConnectDone(t)
    \/ ConnectFail(t)
    \/ WaitPoll(t)
    \/ ReleaseCall(t)
    \/ ReleaseRun(t)

SweeperStep ==
    \/ SweepCall
    \/ SweepLock
    \/ SweepRemove
    \/ SweepEnd

NextPool ==
    \/ \E t \in Callers : CallerStep(t)
    \/ SweeperStep
    \/ PoolTick

----------------------------------------------------------------------------
(* OptimizedSession: request batching *)

NumRequests == 3           \* _send_batched is called this often, once per request
BatchMaxSize == 2          \* RequestBatch.max_size (BATCH_SIZE, scaled down)
BatchMaxWait == 2          \* RequestBatch.max_wait (BATCH_TIMEOUT), in ticks
BatchMaxTime == 4          \* the batching runs are cut at this clock value

Requests == 1..NumRequests
Flusher == 0               \* the _batch_processor task; task r > 0 submits request r
Tasks == {Flusher} \cup Requests
NoBatch == 0               \* current_batch is None
Outcomes == {"list", "single", "fail"}   \* what super().send yields

\* RequestBatch.__init__
NewBatch(t) ==
    [requests |-> <<>>, created_at |-> t,
     submitted |-> <<>>,      \* history: the requests add_request was called with
     flushed_at |-> -1]       \* history: when _process_batch first took the batch

\* RequestBatch.add_request
AddRequest(b, r) == [b EXCEPT !.requests = Append(@, r), !.submitted = Append(@, r)]

\* RequestBatch.is_ready
IsReadyOverfull(b, t) ==
    \/ Len(b.requests) > BatchMaxSize
    \/ t - b.created_at >= BatchMaxWait
IsReadyEarly(b, t) ==
    \/ Len(b.requests) >= BatchMaxSize
    \/ t - b.created_at >= BatchMaxWait - 1
IsReady(b, t) ==
    \/ Len(b.requests) >= BatchMaxSize
    \/ t - b.created_at >= BatchMaxWait

\* RequestBatch.is_empty
IsEmpty(b) == Len(b.requests) = 0

\* the age test of _batch_processor
FlusherDue(b, t) == t - b.created_at >= BatchMaxWait

\* What a request's future holds: "none" before the call, "pending",
\* "cancelled" by wait_for's timeout, "result" (the request's own result),
\* "shared" (the one non-list result given to every member), or an exception:
\* "error" (what the exchange raised), "invalid_state" (set_result or
\* set_exception on a future that is already done), "no_result".
Exceptions == {"error", "invalid_state", "no_result"}
Completed == {"result", "shared"} \cup Exceptions

\* the except branch of _process_batch: set e on every future that is not done
FailFirstPending(f, reqs, e) ==
    [r \in DOMAIN f |->
        IF reqs # <<>> /\ r = reqs[1] /\ f[r] = "pending" THEN e ELSE f[r]]
FailPending(f, reqs, e) ==
    [r \in DOMAIN f |->
        IF r \in SeqToSet(reqs) /\ f[r] = "pending" THEN e ELSE f[r]]

\* the result loops of _process_batch over the batch as it is now, giving
\* `val` to the first `len` members; set_result on a future that is already
\* done raises, which ends in the except branch
RECURSIVE SetResults(_, _, _, _, _)
SetResults(f, reqs, i, len, val) ==
    IF i > Len(reqs) THEN f
    ELSE IF f[reqs[i]] # "pending" THEN FailPending(f, reqs, "invalid_state")
    ELSE SetResults([f EXCEPT ![reqs[i]] = IF i <= len THEN val ELSE "no_result"],
                    reqs, i + 1, len, val)

\* _process_batch after `await super().send(...)`: `sent` is what was sent,
\* `reqs` the batch's requests now
Distribute(f, sent, reqs, outcome) ==
    IF outcome = "fail" THEN FailPending(f, reqs, "error")
    ELSE IF Len(sent) > 1
    THEN IF outcome = "list"
         THEN SetResults(f, reqs, 1, Len(sent), "result")
         ELSE SetResults(f, reqs, 1, Len(reqs), "shared")
    ELSE IF f[reqs[1]] # "pending" THEN FailPending(f, reqs, "invalid_state")
         ELSE [f EXCEPT ![reqs[1]] = "result"]

\* the message self.msg_factory() builds: it is given no query
NoBody == 0

\* MsgContainer([self.msg_factory() for _ in queries])
Container(queries) == [i \in 1..Len(queries) |-> NoBody]

\* what super().send is given: the container, or the query of a batch of one
Wire(queries) == IF Len(queries) > 1 THEN Container(queries) ELSE queries

NoProc == [batch |-> NoBatch, sent |-> <<>>, wire |-> <<>>]

\* _process_batch up to `await super().send(...)`
StartProcess(bs, b) ==
    [batch |-> b, sent |-> bs[b].requests, wire |-> Wire(bs[b].requests)]

\* history: the batch's first flush starts at time t
MarkFlushed(bs, b, t) ==
    [bs EXCEPT ![b].flushed_at = IF @ < 0 THEN t ELSE @]

\* lines 181-188 of _send_batched for request r, with current batch cb in bs:
\* add the request, then flush the batch if it is ready
AddAndCheck(r, bs, cb) ==
    LET bs1 == [bs EXCEPT ![cb] = AddRequest(bs[cb], r)] IN
    /\ current_batch' = cb
    /\ IF IsReady(bs1[cb], now)
       THEN /\ proc' = [proc EXCEPT ![r] = StartProcess(bs1, cb)]
            /\ batches' = MarkFlushed(bs1, cb, now)
            /\ spc' = [spc EXCEPT ![r] = "flush_new"]
       ELSE /\ proc' = [proc EXCEPT ![r] = NoProc]
            /\ batches' = bs1
            /\ spc' = [spc EXCEPT ![r] = "wait"]

\* _send_batched(r) from the call to its first suspension
Submit(r) ==
    /\ spc[r] = "idle"
    /\ future' = [future EXCEPT ![r] = "pending"]
    /\ IF current_batch = NoBatch \/ IsReady(batches[current_batch], now)
       THEN IF current_batch # NoBatch /\ ~IsEmpty(batches[current_batch])
            THEN \* await self._process_batch(self.current_batch)
                 /\ proc' = [proc EXCEPT ![r] = StartProcess(batches, current_batch)]
                 /\ batches' = MarkFlushed(batches, current_batch, now)
                 /\ spc' = [spc EXCEPT ![r] = "flush_old"]
                 /\ UNCHANGED current_batch
            ELSE AddAndCheck(r, Append(batches, NewBatch(now)), Len(batches) + 1)
       ELSE AddAndCheck(r, batches, current_batch)
    /\ UNCHANGED <<now, connVars, clientVars, cacheVars, poolVars, sessVars, flusher>>

\* the exchange of task t's _process_batch ends; the task runs on to its
\* next suspension
ExchangeDone(t, outcome) ==
    /\ proc[t].batch # NoBatch
    /\ LET f1 == Distribute(future, proc[t].sent, batches[proc[t].batch].requests,
                            outcome) IN
       IF t = Flusher
       THEN \* self.current_batch = None; await asyncio.sleep(BATCH_TIMEOUT)
            /\ future' = f1
            /\ current_batch' = NoBatch
            /\ flusher' = [pc |-> "sleep", wake |-> now + BatchMaxWait]
            /\ proc' = [proc EXCEPT ![t] = NoProc]
            /\ UNCHANGED <<batches, spc>>
       ELSE IF spc[t] = "flush_old"
       THEN \* self.current_batch = RequestBatch(...), then lines 181-188
            /\ future' = f1
            /\ AddAndCheck(t, Append(batches, NewBatch(now)), Len(batches) + 1)
            /\ UNCHANGED flusher
       ELSE \* self.current_batch = None; await wait_for(future, timeout)
            /\ future' = f1
            /\ current_batch' = NoBatch
            /\ proc' = [proc EXCEPT ![t] = NoProc]
            /\ spc' = [spc EXCEPT ![t] = "wait"]
            /\ UNCHANGED <<batches, flusher>>
    /\ UNCHANGED <<now, connVars, clientVars, cacheVars, poolVars, sessVars>>

\* wait_for(future, timeout) returns or raises what the future holds
WaitDone(r) ==
    /\ spc[r] = "wait"
    /\ future[r] \in Completed
    /\ spc' = [spc EXCEPT ![r] = "done"]
    /\ UNCHANGED <<now, connVars, clientVars, cacheVars, poolVars, sessVars,
                   current_batch, batches, future,
                   proc, flusher>>

\* wait_for(future, timeout) times out: the future is cancelled
WaitTimeout(r) ==
    /\ spc[r] = "wait"
    /\ future[r] = "pending"
    /\ future' = [future EXCEPT ![r] = "cancelled"]
    /\ spc' = [spc EXCEPT ![r] = "done"]
    /\ UNCHANGED <<now, connVars, clientVars, cacheVars, poolVars, sessVars,
                   current_batch, batches, proc,
                   flusher>>

\* _batch_processor wakes from asyncio.sleep(BATCH_TIMEOUT)
FlusherWake ==
    /\ flusher.pc = "sleep"
    /\ now >= flusher.wake
    /\ IF /\ current_batch # NoBatch
          /\ ~IsEmpty(batches[current_batch])
          /\ FlusherDue(batches[current_batch], now)
       THEN /\ proc' = [proc EXCEPT ![Flusher] = StartProcess(batches, current_batch)]
            /\ batches' = MarkFlushed(batches, current_batch, now)
            /\ flusher' = [flusher EXCEPT !.pc = "flush"]
       ELSE /\ flusher' = [flusher EXCEPT !.wake = now + BatchMaxWait]
            /\ UNCHANGED <<proc, batches>>
    /\ UNCHANGED <<now, connVars, clientVars, cacheVars, poolVars, sessVars,
                   current_batch, future, spc>>

\* time passes; a sleeping task may wake later than it asked to
BatchTick ==
    /\ now < BatchMaxTime
    /\ now' = now + 1
    /\ UNCHANGED <<connVars, clientVars, cacheVars, poolVars, sessVars, batchVars>>

\* time passes, but never past the moment the flusher asked to be woken at
BatchTickPunctual ==
    /\ flusher.pc = "sleep" => now < flusher.wake
    /\ BatchTick

InitBatchState ==
    /\ current_batch = NoBatch
    /\ batches = <<>>
    /\ future = [r \in Requests |-> "none"]
    /\ spc = [r \in Requests |-> "idle"]
    /\ proc = [t \in Tasks |-> NoProc]
    /\ flusher = [pc |-> "sleep", wake |-> BatchMaxWait]

BatchStep ==
    \/ \E r \in Requests : Submit(r)
    \/ \E t \in Tasks, o \in Outcomes : ExchangeDone(t, o)
    \/ \E r \in Requests : WaitDone(r)
    \/ \E r \in Requests : WaitTimeout(r)
    \/ FlusherWake

NextBatch == BatchStep \/ BatchTick

NextBatchPunctual == BatchStep \/ BatchTickPunctual

----------------------------------------------------------------------------
(* OptimizedConnection: handshake retries, quality and health score.       *)
(* Quality and score are fixed-point numbers, QScale standing for 1.0; the *)
(* clock of this component ticks once per StaleAfter (300 s).              *)

QScale == 10000            \* connection_quality = 1.0
MAX_CONNECTION_ATTEMPTS == 5
StaleAfter == 1            \* 300 s without activity, in ticks
StaleSpan == 6             \* the 1800 s over which the age penalty grows, in ticks
ConnStart == 3             \* time.time() at construction: far from last_activity = 0
ConnMaxTime == 5           \* the connection runs are cut at this clock value
MaxConnOps == 4            \* send and recv are called this often
MaxConnects == 2           \* connect is called this often

Min(a, b) == IF a <= b THEN a ELSE b
Max(a, b) == IF a >= b THEN a ELSE b

\* connection_quality after an error: max(0.1, q * 0.8)
QualityKept(q) == q
QualityDown(q) == Max(QScale \div 10, (q * 4) \div 5)

\* connection_quality after a successful send or recv: min(1.0, q * 1.01)
QualityLost(q) == (q * 99) \div 100
QualityUp(q) == Min(QScale, (q * 101) \div 100)

\* get_health_score: error_penalty
ErrorPenalty(n) == IF n > 0 THEN Min(QScale \div 2, (n * QScale) \div 10) ELSE 0

\* get_health_score: age_penalty for time_since_activity = age
AgePenalty(age) ==
    IF age > StaleAfter
    THEN Min((3 * QScale) \div 10, ((age - StaleAfter) * QScale) \div StaleSpan)
    ELSE 0

\* get_health_score: max(0.0, min(1.0, score))
NoClamp(score) == score
Clamp(score) == Max(0, Min(QScale, score))

\* get_health_score at time t
HealthScore(q, errs, healthy, last, t) ==
    IF ~healthy THEN 0
    ELSE Clamp(q - ErrorPenalty(errs) - AgePenalty(t - last))

\* get_health_score() called now
HealthNow ==
    HealthScore(connection_quality, consecutive_errors, is_healthy,
                last_activity, now)

\* the for loop of connect has no further attempt after attempt a
LastAttemptEarly(a) == a >= MAX_CONNECTION_ATTEMPTS - 2
LastAttempt(a) == a >= MAX_CONNECTION_ATTEMPTS - 1

\* history: an operation of kind k ("error" or "success") has just ended,
\* leaving the connection with quality q, errs errors and last activity la;
\* `base` tells whether the current run of errors began at quality 1.0 with
\* no errors, `ops` counts the send and recv calls (n: 1 for such a call)
Note(k, q, errs, la, n) ==
    [kind |-> k,
     score |-> HealthScore(q, errs, is_healthy, la, now),
     run |-> IF lastOp.kind = k THEN Min(lastOp.run + 1, MAX_CONNECTION_ATTEMPTS)
             ELSE 1,
     base |-> IF k = "error" /\ lastOp.kind = "error" THEN lastOp.base
              ELSE connection_quality = QScale /\ consecutive_errors = 0,
     ops |-> lastOp.ops + n]

\* _handle_connection_error
HandleConnectionError(n) ==
    /\ consecutive_errors' = consecutive_errors + 1
    /\ connection_quality' = QualityDown(connection_quality)
    /\ lastOp' = Note("error", QualityDown(connection_quality),
                      consecutive_errors + 1, last_activity, n)
    /\ UNCHANGED last_activity

\* the success branch of send and of recv
NoteSuccess ==
    /\ last_activity' = now
    /\ connection_quality' = QualityUp(connection_quality)
    /\ lastOp' = Note("success", QualityUp(connection_quality),
                      consecutive_errors, now, 1)
    /\ UNCHANGED consecutive_errors

\* not self.keepalive_task or self.keepalive_task.done()
KeepaliveDone(st) == st \in {"none", "cancelled"}

\* `await self.keepalive_task` in close() returns once the task has terminated
KeepaliveJoinedAtOnce(st) == TRUE
KeepaliveJoined(st) == KeepaliveDone(st)

\* connect() is called (not while a close() is in progress)
ConnConnect ==
    /\ connect.pc = "idle"
    /\ connect.calls < MaxConnects
    /\ connect' = [pc |-> "attempt", attempt |-> 0, result |-> "none",
                   calls |-> connect.calls + 1]
    /\ protocol' = "connecting"
    /\ UNCHANGED <<connection_quality, consecutive_errors, is_healthy,
                   last_activity, keepalive_task, lastOp>>
    /\ close_call \in {"idle", "closed"}
    /\ close_call' = "idle"
    /\ UNCHANGED last_ping
    /\ UNCHANGED <<now, cacheVars, poolVars, batchVars, sessVars, clientVars>>

\* the handshake of the current attempt succeeds; connect is on its way
\* out through the finally clause
ConnAttemptOk ==
    /\ connect.pc = "attempt"
    /\ last_activity' = now
    /\ is_healthy' = TRUE
    /\ consecutive_errors' = 0
    /\ keepalive_task' = IF KeepaliveDone(keepalive_task) THEN "running"
                          ELSE keepalive_task
    /\ protocol' = "open"
    /\ connect' = [connect EXCEPT !.pc = "closing", !.result = "returned"]
    /\ lastOp' = [lastOp EXCEPT !.kind = "connected", !.run = 1,
                                !.score = HealthScore(connection_quality, 0,
                                                      TRUE, now, now)]
    /\ UNCHANGED connection_quality
    /\ UNCHANGED <<close_call, last_ping>>
    /\ UNCHANGED <<now, cacheVars, poolVars, batchVars, sessVars, clientVars>>

\* the handshake of the current attempt times out or raises: one of the
\* except clauses runs, then the finally clause
ConnAttemptFail ==
    /\ connect.pc = "attempt"
    /\ HandleConnectionError(0)
    /\ connect' = [connect EXCEPT !.pc = "closing", !.result = "failed"]
    /\ UNCHANGED <<is_healthy, keepalive_task, protocol>>
    /\ UNCHANGED <<close_call, last_ping>>
    /\ UNCHANGED <<now, cacheVars, poolVars, batchVars, sessVars, clientVars>>

\* `await self.protocol.close()` of the finally clause ends: connect returns
\* after a success, sleeps before the next attempt after a failure, and
\* gives up after the failure of the last attempt
ConnCloseDone ==
    /\ connect.pc = "closing"
    /\ protocol' = "closed"
    /\ IF connect.result = "returned"
       THEN /\ connect' = [connect EXCEPT !.pc = "idle"]
            /\ UNCHANGED is_healthy
       ELSE IF LastAttempt(connect.attempt)
       THEN /\ is_healthy' = FALSE
            /\ connect' = [connect EXCEPT !.pc = "idle", !.result = "raised"]
       ELSE /\ connect' = [connect EXCEPT !.pc = "backoff", !.result = "none"]
            /\ UNCHANGED is_healthy
    /\ UNCHANGED <<connection_quality, consecutive_errors, last_activity,
                   keepalive_task, lastOp>>
    /\ UNCHANGED <<close_call, last_ping>>
    /\ UNCHANGED <<now, cacheVars, poolVars, batchVars, sessVars, clientVars>>

\* asyncio.sleep(delay) of connect ends; the next attempt starts
ConnBackoffDone ==
    /\ connect.pc = "backoff"
    /\ connect' = [connect EXCEPT !.pc = "attempt", !.attempt = @ + 1]
    /\ protocol' = "connecting"
    /\ UNCHANGED <<connection_quality, consecutive_errors, is_healthy,
                   last_activity, keepalive_task, lastOp>>
    /\ UNCHANGED <<close_call, last_ping>>
    /\ UNCHANGED <<now, cacheVars, poolVars, batchVars, sessVars, clientVars>>

\* send(data): the transport accepts the data, or raises
ConnSend(ok) ==
    /\ lastOp.ops < MaxConnOps
    /\ IF ok THEN NoteSuccess ELSE HandleConnectionError(1)
    /\ UNCHANGED <<is_healthy, keepalive_task, protocol, connect>>
    /\ UNCHANGED <<close_call, last_ping>>
    /\ UNCHANGED <<now, cacheVars, poolVars, batchVars, sessVars, clientVars>>

\* recv(): the transport yields data, yields nothing, or raises
ConnRecv(outcome) ==
    /\ lastOp.ops < MaxConnOps
    /\ CASE outcome = "data" -> NoteSuccess
         [] outcome = "empty" ->
                /\ lastOp' = [lastOp EXCEPT !.ops = @ + 1]
                /\ UNCHANGED <<connection_quality, consecutive_errors,
                               last_activity>>
         [] OTHER -> HandleConnectionError(1)
    /\ UNCHANGED <<is_healthy, keepalive_task, protocol, connect>>
    /\ UNCHANGED <<close_call, last_ping>>
    /\ UNCHANGED <<now, cacheVars, poolVars, batchVars, sessVars, clientVars>>

\* close() is called (not while a connect() is in progress): a keepalive
\* task that is set and not done is cancelled and awaited, otherwise
\* super().close() is awaited at once
CloseCall ==
    /\ connect.pc = "idle"
    /\ close_call \in {"idle", "closed"}
    /\ IF KeepaliveDone(keepalive_task)
       THEN /\ close_call' = "transport"
            /\ UNCHANGED keepalive_task
       ELSE /\ close_call' = "join"
            /\ keepalive_task' = "cancelling"
    /\ UNCHANGED <<connection_quality, consecutive_errors, is_healthy,
                   last_activity, protocol, connect, lastOp, last_ping>>
    /\ UNCHANGED <<now, cacheVars, poolVars, batchVars, sessVars, clientVars>>

\* `await self.keepalive_task` returns: super().close() is awaited
CloseJoin ==
    /\ close_call = "join"
    /\ KeepaliveJoined(keepalive_task)
    /\ close_call' = "transport"
    /\ UNCHANGED <<connection_quality, consecutive_errors, is_healthy,
                   last_activity, keepalive_task, protocol, connect, lastOp,
                   last_ping>>
    /\ UNCHANGED <<now, cacheVars, poolVars, batchVars, sessVars, clientVars>>

\* super().close() has closed the transport; close() logs and returns
CloseTransport ==
    /\ close_call = "transport"
    /\ protocol' = "closed"
    /\ close_call' = "closed"
    /\ UNCHANGED <<connection_quality, consecutive_errors, is_healthy,
                   last_activity, keepalive_task, connect, lastOp, last_ping>>
    /\ UNCHANGED <<now, cacheVars, poolVars, batchVars, sessVars, clientVars>>

\* the cancelled keepalive loop receives CancelledError at its sleep and
\* returns
KeepaliveCancelled ==
    /\ keepalive_task = "cancelling"
    /\ keepalive_task' = "cancelled"
    /\ UNCHANGED <<connection_quality, consecutive_errors, is_healthy,
                   last_activity, protocol, connect, lastOp, close_call,
                   last_ping>>
    /\ UNCHANGED <<now, cacheVars, poolVars, batchVars, sessVars, clientVars>>

\* the keepalive loop wakes from its sleep, finds the connection idle for
\* more than KEEPALIVE_INTERVAL (a tenth of a tick) and pings; _send_ping
\* only stamps last_ping and cannot raise.  A wake-up that finds the
\* connection active changes nothing.
KeepalivePing ==
    /\ keepalive_task = "running"
    /\ last_ping' = now
    /\ UNCHANGED <<connection_quality, consecutive_errors, is_healthy,
                   last_activity, keepalive_task, protocol, connect, lastOp,
                   close_call>>
    /\ UNCHANGED <<now, cacheVars, poolVars, batchVars, sessVars, clientVars>>

\* time passes
ConnTick ==
    /\ now < ConnMaxTime
    /\ now' = now + 1
    /\ UNCHANGED <<cacheVars, poolVars, batchVars, sessVars, connVars, clientVars>>

\* OptimizedConnection.__init__
InitConnState ==
    /\ connection_quality = QScale
    /\ consecutive_errors = 0
    /\ is_healthy = TRUE
    /\ last_activity = 0
    /\ keepalive_task = "none"
    /\ protocol = "none"
    /\ connect = [pc |-> "idle", attempt |-> 0, result |-> "none", calls |-> 0]
    /\ lastOp = [kind |-> "none", score |-> 0, run |-> 0, base |-> TRUE,
                 ops |-> 0]
    /\ close_call = "idle"
    /\ last_ping = 0

ConnectStep ==
    \/ ConnConnect
    \/ ConnAttemptOk
    \/ ConnAttemptFail
    \/ ConnCloseDone
    \/ ConnBackoffDone

NextConn ==
    \/ ConnectStep
    \/ \E ok \in BOOLEAN : ConnSend(ok)
    \/ \E o \in {"data", "empty", "error"} : ConnRecv(o)
    \/ ConnTick

\* connect(), close() and the keepalive loop
NextConnClose ==
    \/ ConnectStep
    \/ CloseCall
    \/ CloseJoin
    \/ CloseTransport
    \/ KeepaliveCancelled
    \/ KeepalivePing
    \/ ConnTick

----------------------------------------------------------------------------
(* ClientOptimized: start, stop and the background tasks *)

Invokers == {"i1", "i2"}
QueryKinds == {"GetMe", "GetUsers", "SendMessage"}   \* the kinds of query tried

\* no invoke call in progress
NoCall == [pc |-> "idle", kind |-> "GetMe", has_dict |-> TRUE, outcome |-> "none"]

\* _should_cache
CacheableTypes ==
    {"GetMe", "GetUsers", "GetChats", "GetHistory", "GetDialogs", "GetContacts"}
ShouldCacheAll(kind) == TRUE
ShouldCache(kind) == kind \in CacheableTypes

\* _generate_cache_key: the class name, then a hash of the parameters (one
\* set of parameters per kind is tried)
GenerateCacheKey(kind) ==
    CASE kind = "GetMe" -> "a"
      [] kind = "GetUsers" -> "b"
      [] OTHER -> "c"

\* the kind of query a cache key was generated for
KindOfKey(k) == CHOOSE kind \in QueryKinds : GenerateCacheKey(kind) = k

\* what the invoke steps leave alone
invokeRest == <<now, max_size, cacheOp, setHist, touchLog, poolVars, batchVars, sessVars,
                connVars, client, degraded>>

\* invoke(query), up to `await super().invoke(...)` or to the return of a
\* cached result; the cache is consulted only for a query with a __dict__
InvokeCall(i, kind, hd) ==
    /\ calls[i].pc = "idle"
    /\ IF hd
       THEN LET r == CacheGetResult(cache, access_order,
                                    GenerateCacheKey(kind), now)
                hit == r.ret # None
            IN /\ cache' = r.cache
               /\ access_order' = r.access_order
               /\ calls' = [calls EXCEPT ![i] =
                      [pc |-> IF hit THEN "idle" ELSE "awaiting",
                       kind |-> kind, has_dict |-> hd,
                       outcome |-> IF hit THEN "cached" ELSE "none"]]
       ELSE /\ calls' = [calls EXCEPT ![i] =
                      [pc |-> "awaiting", kind |-> kind, has_dict |-> hd,
                       outcome |-> "none"]]
            /\ UNCHANGED <<cache, access_order>>
    /\ UNCHANGED invokeRest

\* super().invoke returns result v: it is cached if _should_cache says so
\* (cache_key is unbound when the cache was not consulted), and returned
InvokeDone(i, v) ==
    /\ calls[i].pc = "awaiting"
    /\ IF ShouldCache(calls[i].kind)
       THEN IF calls[i].has_dict
            THEN LET r == CacheSetResult(cache, access_order,
                                         GenerateCacheKey(calls[i].kind), v,
                                         now, max_size)
                 IN /\ cache' = r.cache
                    /\ access_order' = r.access_order
                    /\ calls' = [calls EXCEPT ![i].pc = "idle",
                                              ![i].outcome = "fresh"]
            ELSE /\ calls' = [calls EXCEPT ![i].pc = "idle", ![i].outcome = "error"]
                 /\ UNCHANGED <<cache, access_order>>
       ELSE /\ calls' = [calls EXCEPT ![i].pc = "idle", ![i].outcome = "fresh"]
            /\ UNCHANGED <<cache, access_order>>
    /\ UNCHANGED invokeRest

\* super().invoke raises: invoke logs and raises
InvokeFail(i) ==
    /\ calls[i].pc = "awaiting"
    /\ calls' = [calls EXCEPT ![i].pc = "idle", ![i].outcome = "error"]
    /\ UNCHANGED <<cache, access_order>>
    /\ UNCHANGED invokeRest

\* what the client's actions leave alone outside the pool
clientRest == <<now, cacheVars, batchVars, sessVars, connVars, max_connections,
                min_connections, active_connections, conn_dc,
                connection_stats, available_connections, pc, held, arg,
                nextConn, calls>>

\* ClientOptimized.__init__
InitClientState ==
    /\ client = [pc |-> "new",        \* "new", "running", then the steps of stop
                 bp |-> "none",       \* batch_processor_task
                 cleanup |-> "none",  \* the task running _periodic_cleanup
                 to_close |-> <<>>]   \* stop: the connections still to close
    /\ degraded = {}
    /\ calls = [i \in Invokers |-> NoCall]

\* start(): both background tasks are created
ClientStart ==
    /\ client.pc = "new"
    /\ client' = [client EXCEPT !.pc = "running", !.bp = "running",
                                !.cleanup = "running"]
    /\ UNCHANGED <<clientRest, lock, closed, sweep, degraded>>

\* stop(), up to its first suspension: the batch processor is cancelled and
\* the pool's lock is taken if it is free
StopCall ==
    /\ client.pc = "running"
    /\ IF LockFree
       THEN /\ lock' = "stop"
            /\ client' = [client EXCEPT !.pc = "closing", !.bp = "cancelling",
                                        !.to_close = active_connections]
       ELSE /\ client' = [client EXCEPT !.pc = "lockwait", !.bp = "cancelling"]
            /\ UNCHANGED lock
    /\ UNCHANGED <<clientRest, closed, sweep, degraded>>

\* stop() gets the pool's lock
StopLock ==
    /\ client.pc = "lockwait"
    /\ LockFree
    /\ lock' = "stop"
    /\ client' = [client EXCEPT !.pc = "closing", !.to_close = active_connections]
    /\ UNCHANGED <<clientRest, closed, sweep, degraded>>

\* stop(): await conn.close() for the next pooled connection
StopClose ==
    /\ client.pc = "closing"
    /\ client.to_close # <<>>
    /\ closed' = closed \cup {Head(client.to_close)}
    /\ client' = [client EXCEPT !.to_close = Tail(@)]
    /\ UNCHANGED <<clientRest, lock, sweep, degraded>>

\* stop(): the loop is over, the lock is released, super().stop() returns
StopReturn ==
    /\ client.pc = "closing"
    /\ client.to_close = <<>>
    /\ lock' = "free"
    /\ client' = [client EXCEPT !.pc = "stopped"]
    /\ UNCHANGED <<clientRest, closed, sweep, degraded>>

\* _batch_processor gets the CancelledError at its await and breaks
BatchProcessorExit ==
    /\ client.bp = "cancelling"
    /\ client' = [client EXCEPT !.bp = "done"]
    /\ UNCHANGED <<clientRest, lock, closed, sweep, degraded>>

\* _periodic_cleanup wakes from asyncio.sleep(60) and calls
\* cleanup_idle_connections
PeriodicCleanup ==
    /\ client.cleanup = "running"
    /\ SweepCall

\* the connection a caller holds fails for the fourth time in a row
Degrade(t) ==
    /\ pc[t] = "holding"
    /\ held[t] \notin degraded
    /\ degraded' = degraded \cup {held[t]}
    /\ UNCHANGED <<clientRest, lock, closed, sweep, client>>

ClientStep ==
    \/ ClientStart
    \/ StopCall
    \/ StopLock
    \/ StopClose
    \/ StopReturn
    \/ BatchProcessorExit

NextClient ==
    \/ ClientStep
    \/ \E t \in Callers : CallerStep(t)
    \/ \E t \in Callers : Degrade(t)
    \/ PeriodicCleanup
    \/ SweepLock
    \/ SweepRemove
    \/ SweepEnd
    \/ PoolTick

----------------------------------------------------------------------------
(* OptimizedSession: start, stop, send and the adaptive timeout.           *)
(* Timeouts, latencies and back-offs are in milliseconds, rounded down.    *)
(* The clock of this component ticks once per flood-wait window (300 s).   *)

SessMaxTime == 1           \* the session runs are cut at this clock value
MaxFloods == 9             \* at most this many flood-waits are signalled
MaxResponses == 2          \* at most this many calls return a result
MaxErrors == 1             \* at most this many calls fail otherwise
MaxRounds == 2             \* at most this many rounds of the health monitor
MaxFailures == 12          \* at most this many calls fail in the back-off runs

WAIT_TIMEOUT == 30000      \* OptimizedSession.WAIT_TIMEOUT
TimeoutCap == 120000       \* the cap of _get_adaptive_timeout
UnhealthyCap == 60000      \* the 60 of the health monitor's min(60, ...)
FloodWindow == 1           \* 300 s, in ticks
HistoryGate == 5           \* the history length _handle_flood_wait asks for
RecentGate == 3            \* the recent flood-waits _handle_flood_wait asks for
FloodHistoryMax == 50      \* flood_wait_history's maxlen
ResponseTimesMax == 100    \* response_times' maxlen
BackoffFloor == 1000       \* the 1 of _update_error_backoff
BackoffCap == 60000        \* the 60 of _update_error_backoff

Senders == {"s1"}
Latencies == {1000, 50000}                 \* the response times tried
ExplicitTimeouts == {None, 5000}           \* send's timeout argument
ErrorTypes == {"TimeoutError", "RPCError"}
Failures == {"FloodWait"} \cup ErrorTypes  \* what the dispatch of a call raises

Terminated == {"none", "finished", "cancelled"}

\* deque(maxlen = n).append(x)
AppendMax(s, x, n) ==
    IF Len(s) < n THEN Append(s, x)
    ELSE [i \in 1..Len(s) |-> IF i < Len(s) THEN s[i + 1] ELSE x]

\* sorted(s)[k], k counted from 0
SortedAt(s, k) ==
    CHOOSE x \in SeqToSet(s) :
        /\ Cardinality({i \in 1..Len(s) : s[i] < x}) <= k
        /\ Cardinality({i \in 1..Len(s) : s[i] <= x}) > k

\* _get_adaptive_timeout (ADAPTIVE_TIMEOUT is True)
GetAdaptiveTimeout(rt, a) ==
    IF rt = <<>> THEN a
    ELSE LET percentile_95 == SortedAt(rt, (Len(rt) * 95) \div 100)
         IN Min(TimeoutCap, Max(WAIT_TIMEOUT, percentile_95 * 3))

\* the flood-waits of history h less than a window old at time t
RecentFloods(h, t) == {i \in 1..Len(h) : t - h[i] < FloodWindow}

\* _handle_flood_wait at time t: the history and the adaptive timeout after it
HandleFloodWait(h, a, t) ==
    LET h2 == AppendMax(h, t, FloodHistoryMax) IN
    [history |-> h2,
     timeout |-> IF /\ Len(h2) > HistoryGate
                    /\ Cardinality(RecentFloods(h2, t)) > RecentGate
                 THEN (a * 3) \div 2
                 ELSE a]

\* _update_error_backoff
UpdateErrorBackoffUncapped(eb, e) ==
    [eb EXCEPT ![e] = Max(BackoffFloor, (eb[e] * 3) \div 2)]
UpdateErrorBackoff(eb, e) ==
    [eb EXCEPT ![e] = Min(BackoffCap, Max(BackoffFloor, (eb[e] * 3) \div 2))]

\* send's except clauses: FloodWait is caught before Exception
HandledAsFlood(e) == e = "FloodWait"
HandledAlways(e) == TRUE
HandledAsError(e) == ~HandledAsFlood(e)

\* `await task` in stop() returns once the task has terminated
JoinedAtOnce(st) == TRUE
Joined(st) == st \in Terminated

NoSend == [pc |-> "idle", timeout |-> 0, default |-> FALSE, dispatches |-> 0,
           failure |-> "none", raised |-> "none", returned |-> FALSE]

InitSessState ==
    /\ session = [pc |-> "new", bp |-> "none", hm |-> "none"]
    /\ adaptive_wait_timeout = WAIT_TIMEOUT
    /\ response_times = <<>>
    /\ flood_wait_history = <<>>
    /\ metrics = [responses_received |-> 0, errors_count |-> 0, flood_waits |-> 0]
    /\ error_backoff = [e \in ErrorTypes |-> 0]
    /\ sends = [s \in Senders |-> NoSend]
    /\ hm_rounds = 0

sessOther == <<cacheVars, poolVars, batchVars, connVars, clientVars>>
sessData == <<adaptive_wait_timeout, response_times, flood_wait_history,
              metrics, error_backoff>>

\* start(): both tasks are created unless already set
SessStart ==
    /\ session.pc \in {"new", "stopped"}
    /\ session' = [pc |-> "running",
                   bp |-> IF session.bp = "none" THEN "running" ELSE session.bp,
                   hm |-> IF session.hm = "none" THEN "running" ELSE session.hm]
    /\ UNCHANGED <<now, sessOther, sessData, sends, hm_rounds>>

\* stop()'s loop from the task named first: the first task that is set and
\* not done is cancelled and awaited; with none left, super().stop() is awaited
StopFrom(first) ==
    IF first = "bp" /\ session.bp = "running"
    THEN [session EXCEPT !.pc = "await_bp", !.bp = "cancelling"]
    ELSE IF session.hm = "running"
    THEN [session EXCEPT !.pc = "await_hm", !.hm = "cancelling"]
    ELSE [session EXCEPT !.pc = "teardown"]

\* stop() is called
SessStopCall ==
    /\ session.pc \in {"new", "running", "stopped"}
    /\ session' = StopFrom("bp")
    /\ UNCHANGED <<now, sessOther, sessData, sends, hm_rounds>>

\* `await task` on the batch processor returns
SessStopJoinBp ==
    /\ session.pc = "await_bp"
    /\ Joined(session.bp)
    /\ session' = StopFrom("hm")
    /\ UNCHANGED <<now, sessOther, sessData, sends, hm_rounds>>

\* `await task` on the health monitor returns
SessStopJoinHm ==
    /\ session.pc = "await_hm"
    /\ Joined(session.hm)
    /\ session' = [session EXCEPT !.pc = "teardown"]
    /\ UNCHANGED <<now, sessOther, sessData, sends, hm_rounds>>

\* super().stop() returns and the statistics are logged
SessStopReturn ==
    /\ session.pc = "teardown"
    /\ session' = [session EXCEPT !.pc = "stopped"]
    /\ UNCHANGED <<now, sessOther, sessData, sends, hm_rounds>>

\* a cancelled task receives CancelledError at its await and returns
SessTaskCancelled(task) ==
    /\ session[task] = "cancelling"
    /\ session' = [session EXCEPT ![task] = "cancelled"]
    /\ UNCHANGED <<now, sessOther, sessData, sends, hm_rounds>>

\* a task's loop raises: `except Exception` logs it and the task returns
SessTaskCrash(task) ==
    /\ session[task] = "running"
    /\ session' = [session EXCEPT ![task] = "finished"]
    /\ UNCHANGED <<now, sessOther, sessData, sends, hm_rounds>>

\* one round of _health_monitor: sleep(30), then the timeout is adjusted
\* from the connection's health score
HealthMonitorRound(healthy) ==
    /\ session.hm = "running"
    /\ hm_rounds < MaxRounds
    /\ hm_rounds' = hm_rounds + 1
    /\ adaptive_wait_timeout' =
           IF ~healthy THEN Min(UnhealthyCap, WAIT_TIMEOUT * 2)
           ELSE Max(WAIT_TIMEOUT, (adaptive_wait_timeout * 95) \div 100)
    /\ UNCHANGED <<now, sessOther, session, response_times, flood_wait_history,
                   metrics, error_backoff, sends>>

\* send(query, timeout = explicit) up to the await of its dispatch
SendCall(s, explicit) ==
    /\ session.pc = "running"
    /\ sends[s].pc = "idle"
    /\ sends' = [sends EXCEPT ![s] =
           [pc |-> "dispatched",
            timeout |-> IF explicit = None
                        THEN GetAdaptiveTimeout(response_times, adaptive_wait_timeout)
                        ELSE explicit,
            default |-> explicit = None,
            dispatches |-> 1,
            failure |-> "none", raised |-> "none", returned |-> FALSE]]
    /\ UNCHANGED <<now, sessOther, session, sessData, hm_rounds>>

\* the dispatch returns a result after lat: the metrics are updated and the
\* result returned
SendReturns(s, lat) ==
    /\ sends[s].pc = "dispatched"
    /\ metrics.responses_received < MaxResponses
    /\ response_times' = AppendMax(response_times, lat, ResponseTimesMax)
    /\ metrics' = [metrics EXCEPT !.responses_received = @ + 1]
    /\ sends' = [sends EXCEPT ![s] = [NoSend EXCEPT !.dispatches = sends[s].dispatches,
                                                    !.returned = TRUE]]
    /\ UNCHANGED <<now, sessOther, session, adaptive_wait_timeout,
                   flood_wait_history, error_backoff, hm_rounds>>

\* the dispatch raises e: it is recorded and raised again
SendRaises(s, e) ==
    /\ sends[s].pc = "dispatched"
    /\ LET fw == HandleFloodWait(flood_wait_history, adaptive_wait_timeout, now)
       IN /\ flood_wait_history' =
                 IF HandledAsFlood(e) THEN fw.history ELSE flood_wait_history
          /\ adaptive_wait_timeout' =
                 IF HandledAsFlood(e) THEN fw.timeout ELSE adaptive_wait_timeout
    /\ metrics' = [metrics EXCEPT
           !.flood_waits = IF HandledAsFlood(e) THEN @ + 1 ELSE @,
           !.errors_count = IF HandledAsError(e) THEN @ + 1 ELSE @]
    /\ error_backoff' = IF HandledAsError(e) /\ e \in ErrorTypes
                        THEN UpdateErrorBackoff(error_backoff, e)
                        ELSE error_backoff
    /\ sends' = [sends EXCEPT ![s] = [NoSend EXCEPT !.dispatches = sends[s].dispatches,
                                                    !.failure = e, !.raised = e]]
    /\ UNCHANGED <<now, sessOther, session, response_times, hm_rounds>>

\* a call fails, within the bounds of the session runs
SendFails(s, e) ==
    /\ HandledAsFlood(e) => metrics.flood_waits < MaxFloods
    /\ ~HandledAsFlood(e) => metrics.errors_count < MaxErrors
    /\ SendRaises(s, e)

\* a call fails with an error other than a flood-wait, within the bound of
\* the back-off runs
SendFailsAgain(s, e) ==
    /\ metrics.errors_count < MaxFailures
    /\ SendRaises(s, e)

SessTick ==
    /\ now < SessMaxTime
    /\ now' = now + 1
    /\ UNCHANGED <<sessOther, session, sessData, sends, hm_rounds>>

\* the session's start and stop with its two tasks
NextLifecycle ==
    \/ SessStart
    \/ SessStopCall
    \/ SessStopJoinBp
    \/ SessStopJoinHm
    \/ SessStopReturn
    \/ \E task \in {"bp", "hm"} : SessTaskCancelled(task)
    \/ \E task \in {"bp", "hm"} : SessTaskCrash(task)
    \/ \E healthy \in BOOLEAN : HealthMonitorRound(healthy)
    \/ SessTick

\* the calls of a session that is started and left running
NextSession ==
    \/ SessStart
    \/ \E healthy \in BOOLEAN : HealthMonitorRound(healthy)
    \/ \E s \in Senders, explicit \in ExplicitTimeouts : SendCall(s, explicit)
    \/ \E s \in Senders, lat \in Latencies : SendReturns(s, lat)
    \/ \E s \in Senders, e \in Failures : SendFails(s, e)
    \/ SessTick

InitCacheState ==
    /\ cache = <<>>
    /\ access_order = <<>>
    /\ cacheOp = [op |-> "none", key |-> "a", ret |-> None, at |-> 0]
    /\ setHist = [k \in Keys |-> [val |-> None, at |-> 0, since |-> {}]]
    /\ touchLog = <<>>

InitCache ==
    /\ now = 0
    /\ max_size \in 1..MaxCacheSize
    /\ InitCacheState
    /\ max_connections = 1 /\ min_connections = 0
    /\ InitPoolState
    /\ InitBatchState
    /\ InitConnState
    /\ InitClientState
    /\ InitSessState

NextCache ==
    \/ \E k \in Keys : CacheGet(k)
    \/ \E k \in Keys, v \in Values : CacheSet(k, v)
    \/ CacheTick

SpecCache == InitCache /\ [][NextCache]_vars

InitPool ==
    /\ now = 0
    /\ max_connections \in 1..MaxPoolSize
    /\ min_connections \in MinChoices
    /\ min_connections <= max_connections
    /\ InitPoolState
    /\ max_size = 1
    /\ InitCacheState
    /\ InitBatchState
    /\ InitConnState
    /\ InitClientState
    /\ InitSessState

SpecPool == InitPool /\ [][NextPool]_vars

InitBatch ==
    /\ now = 0
    /\ InitBatchState
    /\ max_size = 1
    /\ InitCacheState
    /\ max_connections = 1 /\ min_connections = 0
    /\ InitPoolState
    /\ InitConnState
    /\ InitClientState
    /\ InitSessState

InitConn ==
    /\ now = ConnStart
    /\ InitConnState
    /\ max_size = 1
    /\ InitCacheState
    /\ max_connections = 1 /\ min_connections = 0
    /\ InitPoolState
    /\ InitBatchState
    /\ InitClientState
    /\ InitSessState

\* the client with a pool of one connection that may be swept
InitClient ==
    /\ InitPool
    /\ max_connections = 1
    /\ min_connections = 0

SpecClient == InitClient /\ [][NextClient]_vars

NextInvoke ==
    \/ \E i \in Invokers, kind \in QueryKinds, hd \in BOOLEAN : InvokeCall(i, kind, hd)
    \/ \E i \in Invokers, v \in Values : InvokeDone(i, v)
    \/ \E i \in Invokers : InvokeFail(i)
    \/ CacheTick

\* the client's invoke over its cache
SpecInvoke == InitCache /\ [][NextInvoke]_vars

InitSession ==
    /\ now = 0
    /\ InitSessState
    /\ max_size = 1
    /\ InitCacheState
    /\ max_connections = 1 /\ min_connections = 0
    /\ InitPoolState
    /\ InitBatchState
    /\ InitConnState
    /\ InitClientState

\* the session's sends and its adaptive timeout
SpecSession == InitSession /\ [][NextSession]_vars

\* the calls of a started session that fail one after the other
NextBackoff ==
    \/ SessStart
    \/ \E s \in Senders, explicit \in ExplicitTimeouts : SendCall(s, explicit)
    \/ \E s \in Senders, e \in ErrorTypes : SendFailsAgain(s, e)

\* the session's error back-off over runs of failed sends
SpecBackoff == InitSession /\ [][NextBackoff]_vars

\* the session's start and stop
SpecLifecycle == InitSession /\ [][NextLifecycle]_vars

SpecConn == InitConn /\ [][NextConn]_vars

\* the connection's connect, close and keepalive loop
SpecConnClose == InitConn /\ [][NextConnClose]_vars

\* a handshake attempt, the close of its transport and the sleep between
\* attempts each end: the attempt is under wait_for's timeout
FairSpecConn == SpecConn /\ WF_vars(ConnectStep)

SpecBatch == InitBatch /\ [][NextBatch]_vars

\* the batching with a flusher that always wakes exactly when its sleep ends
SpecBatchPunctual == InitBatch /\ [][NextBatchPunctual]_vars

\* every task that can take a step eventually takes one
FairSpecPool ==
    /\ SpecPool
    /\ \A t \in Callers : WF_vars(CallerStep(t))
    /\ WF_vars(SweeperStep)

----------------------------------------------------------------------------
(* Claims about OptimizedCache, checked under SpecCache. *)

\* C1: after any sequence of get and set calls the cache holds at most
\* max_size entries.
C1_CacheSizeBounded == Cardinality(DOMAIN cache) <= max_size

\* a set has just evicted: more keys were touched than fit, none can have expired
C1_Witness ==
    /\ cacheOp.op = "set"
    /\ cacheOp.at = 0 /\ now = 0
    /\ Len(touchLog) > max_size
    /\ Cardinality(DOMAIN cache) = max_size

\* C2: a get(k) after set(k, v), before the TTL has elapsed since that set,
\* with no later set(k, .) and fewer than max_size other distinct keys
\* touched in between, returns v; a get of a key never set returns None.
C2_GetAfterSet ==
    cacheOp.op = "get" =>
        LET h == setHist[cacheOp.key] IN
        /\ (/\ h.val # None
            /\ cacheOp.at - h.at < CacheTtl
            /\ Cardinality(h.since) < max_size) => cacheOp.ret = h.val
        /\ h.val = None => cacheOp.ret = None

\* a get returned the value set earlier although another key was touched since
C2_Witness ==
    /\ cacheOp.op = "get"
    /\ setHist[cacheOp.key].val # None
    /\ setHist[cacheOp.key].since # {}
    /\ cacheOp.at > setHist[cacheOp.key].at
    /\ cacheOp.ret = setHist[cacheOp.key].val

\* the last n elements of a sequence, as a set
LastN(s, n) == {s[i] : i \in {j \in 1..Len(s) : j > Len(s) - n}}

\* while no entry can have expired, the cache holds exactly the max_size
\* most recently touched keys, each with the value last set
LruContent ==
    now < CacheTtl =>
        /\ DOMAIN cache = LastN(touchLog, max_size)
        /\ \A k \in DOMAIN cache : cache[k].value = setHist[k].val

\* a key a set removes was touched before every key the cache keeps
EvictsOldest ==
    cacheOp'.op = "set" =>
        \A k \in (DOMAIN cache) \ (DOMAIN cache') :
            \A j \in DOMAIN cache' : IndexOf(touchLog', k) < IndexOf(touchLog', j)

\* C3: eviction is strictly least-recently-used: the entry a set removes is
\* the one whose most recent touch (a set of it or a get hit on it) is the
\* oldest; with max_size 2, set a, set b, set c leaves b and c, and
\* set a, set b, get a, set c leaves a and c.
C3_StrictLRU == [](LruContent) /\ [][EvictsOldest]_vars

\* set a, set b, get a, set c with max_size 2: b is the one evicted
C3_Witness ==
    /\ max_size = 2
    /\ now = 0
    /\ touchLog = <<"b", "a", "c">>
    /\ cacheOp.op = "set" /\ cacheOp.key = "c"
    /\ DOMAIN cache = {"a", "c"}

\* C4: an entry whose age since its last set is at least the TTL is never
\* returned: get on it returns None and deletes it from the entry map and
\* from the recency order; a get hit does not extend an entry's lifetime
\* (its timestamp stays the time of the last set).
C4_ExpiredNeverReturned ==
    /\ \A k \in DOMAIN cache : cache[k].timestamp = setHist[k].at
    /\ (/\ cacheOp.op = "get"
        /\ setHist[cacheOp.key].val # None
        /\ cacheOp.at - setHist[cacheOp.key].at >= CacheTtl)
       => /\ cacheOp.ret = None
          /\ cacheOp.key \notin DOMAIN cache
          /\ cacheOp.key \notin SeqToSet(access_order)

\* a get of a key that was set at least a TTL ago, and since then kept in
\* the cache, returned None
C4_Witness ==
    /\ cacheOp.op = "get"
    /\ setHist[cacheOp.key].val # None
    /\ setHist[cacheOp.key].since = {}
    /\ cacheOp.at - setHist[cacheOp.key].at >= CacheTtl
    /\ cacheOp.ret = None

----------------------------------------------------------------------------
(* Claims about ConnectionPool, checked under SpecPool and FairSpecPool. *)

\* C5: under any interleaving of get_connection, release_connection and
\* cleanup_idle_connections, the number of active connections is at most
\* config.max_connections.
C5_ActiveBounded == Len(active_connections) <= max_connections

\* the pool is full and a get_connection call found nothing to reuse
C5_Witness ==
    /\ Len(active_connections) = max_connections
    /\ \E t \in Callers : pc[t] = "waiting"

\* C6: when one get_connection call waits on a saturated pool with an
\* empty queue and the holder calls release_connection, the release
\* completes and the waiting call eventually returns.
C6_WaiterReturns ==
    \A t \in Callers :
        (pc[t] = "waiting" /\ \E u \in Callers : pc[u] = "releasing")
            ~> (pc[t] = "holding")

\* C7: a pooled connection is checked out to at most one caller at a time:
\* no two callers hold the same connection between get_connection's return
\* and their call of release_connection.
C7_ExclusiveCheckout ==
    \A t, u \in Callers :
        (t # u /\ held[t] # NoConn) => held[t] # held[u]

\* C8: a sweep that starts with at least min_connections active connections
\* ends with at least min_connections active connections.
C8_SweepKeepsMin ==
    [][(/\ sweep.pc = "removing"
        /\ sweep'.pc = "idle"
        /\ sweep.before >= min_connections)
       => Len(active_connections') >= min_connections]_vars

----------------------------------------------------------------------------
(* Claims about the batching of OptimizedSession, checked under SpecBatch  *)
(* and SpecBatchPunctual.                                                  *)

\* task t enters _process_batch in this step
FlushStarts(t) ==
    /\ proc'[t].batch # NoBatch
    /\ proc'[t].batch # proc[t].batch

\* a flush of an under-size batch starts at age max_wait or later, and it
\* sends exactly the requests submitted to the batch so far
FlushIsDue(t) ==
    LET b == batches'[proc'[t].batch] IN
    /\ Len(b.requests) < BatchMaxSize => now - b.created_at >= BatchMaxWait
    /\ proc'[t].sent = b.submitted

\* C9: a batch holding fewer than max_size requests is never flushed, by a
\* submitter or by the background flusher, before its age reaches max_wait,
\* and when it is flushed it contains exactly the requests submitted to it
\* so far.
C9_NoEarlyFlush ==
    [][\A t \in Tasks : FlushStarts(t) => FlushIsDue(t)]_vars

\* an under-size batch that holds a request is being flushed, at age max_wait
C9_Witness ==
    \E t \in Tasks :
        /\ proc[t].batch # NoBatch
        /\ proc[t].sent # <<>>
        /\ Len(proc[t].sent) < BatchMaxSize
        /\ now = batches[proc[t].batch].created_at + BatchMaxWait

\* C10: while the flusher runs, every batch that holds a request has its
\* flush started no later than max_wait after the batch was created,
\* whatever the phase of the flusher's sleep and whatever the traffic.
C10_FlushWithinMaxWait ==
    \A b \in DOMAIN batches :
        batches[b].submitted # <<>> =>
            IF batches[b].flushed_at >= 0
            THEN batches[b].flushed_at - batches[b].created_at <= BatchMaxWait
            ELSE now - batches[b].created_at <= BatchMaxWait

\* C11: under any interleaving of _send_batched calls and the flusher,
\* every RequestBatch, current or in flight, holds at most max_size requests.
C11_BatchSizeBounded ==
    \A b \in DOMAIN batches : Len(batches[b].requests) <= BatchMaxSize

\* a full batch is in flight while another call has already been submitted
C11_Witness ==
    \E t \in Tasks :
        /\ proc[t].batch # NoBatch
        /\ Len(batches[proc[t].batch].requests) = BatchMaxSize
        /\ \E r \in Requests : spc[r] = "wait" /\ future[r] = "pending"

\* C12: no interleaving of submitters and the flusher discards a batch that
\* still holds a request whose pending result has not been completed: a
\* batch that is no longer the current one and was never flushed holds no
\* pending request.
C12_NoBatchDiscarded ==
    \A b \in DOMAIN batches :
        (b # current_batch /\ batches[b].flushed_at < 0) =>
            \A r \in SeqToSet(batches[b].requests) : future[r] # "pending"

\* the members of the batch task t is exchanging
MembersOf(t) == SeqToSet(batches[proc[t].batch].requests)

\* C13: when the wire exchange of a batch fails, every member whose pending
\* result is not yet completed is failed with that same error: none is left
\* pending and none is completed with a result by the failed exchange.
C13_FailureFailsAll ==
    [][\A t \in Tasks :
          ExchangeDone(t, "fail") =>
              \A r \in MembersOf(t) :
                  /\ future[r] = "pending" => future'[r] = "error"
                  /\ future[r] # "pending" => future'[r] = future[r]]_vars

\* both members of a batch hold the error of its failed exchange
C13_Witness ==
    \E b \in DOMAIN batches :
        /\ Len(batches[b].requests) > 1
        /\ \A r \in SeqToSet(batches[b].requests) : future[r] = "error"

\* C14: if one member of a batch has timed out (its pending result was
\* cancelled) before the batch's exchange completes with one result per
\* member, every other member still receives its own result.
C14_TimeoutIsolated ==
    [][\A t \in Tasks :
          (/\ ExchangeDone(t, "list")
           /\ \E r \in MembersOf(t) : future[r] = "cancelled"
           /\ \A r \in MembersOf(t) : future[r] \in {"cancelled", "pending"})
          => \A r \in MembersOf(t) :
                 future[r] = "pending" => future'[r] = "result"]_vars

----------------------------------------------------------------------------
(* Claims about OptimizedConnection, checked under SpecConn and            *)
(* FairSpecConn.                                                           *)

\* C15: get_health_score returns a value in [0, 1] in every reachable
\* connection state, and 0 while the connection is marked unhealthy.
C15_HealthInRange ==
    /\ HealthScore(connection_quality, consecutive_errors, is_healthy,
                   last_activity, now) \in 0..QScale
    /\ ~is_healthy => HealthScore(connection_quality, consecutive_errors,
                                  is_healthy, last_activity, now) = 0

\* the unclamped score is negative: five errors in a row on a healthy
\* connection
C15_Witness ==
    /\ is_healthy
    /\ consecutive_errors >= MAX_CONNECTION_ATTEMPTS
    /\ connection_quality - ErrorPenalty(consecutive_errors) < 0

\* C16: over a run of consecutive errors (send, recv or handshake failures)
\* with no success in between, the health score never increases from one
\* error to the next; over a run of consecutive successful sends and
\* receives with no error in between it never decreases from one success to
\* the next.
C16_HealthMonotone ==
    [][/\ (lastOp.kind = "error" /\ lastOp'.kind = "error")
            => lastOp'.score <= lastOp.score
       /\ (lastOp.kind = "success" /\ lastOp'.kind = "success")
            => lastOp'.score >= lastOp.score]_vars

\* a second success in a row has just raised the score of a connection that
\* had lost quality
C16_Witness ==
    /\ lastOp.kind = "success"
    /\ lastOp.run >= 2
    /\ consecutive_errors > 0
    /\ lastOp.score > 0
    /\ connection_quality < QScale

\* C17: after 4 consecutive connection errors that began at quality 1.0
\* with no errors, the health score is at most 0.2.
C17_DegradedAfterFour ==
    (lastOp.kind = "error" /\ lastOp.base /\ lastOp.run >= 4)
        => HealthNow <= QScale \div 5

\* four errors in a row on a connection whose handshake had succeeded
C17_Witness ==
    /\ lastOp.kind = "error"
    /\ lastOp.base
    /\ lastOp.run = 4
    /\ is_healthy
    /\ last_activity = now

\* connect has made at most MAX_CONNECTION_ATTEMPTS attempts; it has
\* returned only from a successful attempt, and it has raised only after the
\* failure of the last attempt, leaving the connection unhealthy
ConnectBounded ==
    /\ connect.attempt < MAX_CONNECTION_ATTEMPTS
    /\ (connect.pc = "idle" /\ connect.result = "raised") =>
           /\ connect.attempt = MAX_CONNECTION_ATTEMPTS - 1
           /\ ~is_healthy
    /\ (connect.pc = "idle" /\ connect.result = "returned") =>
           /\ is_healthy
           /\ consecutive_errors <= lastOp.ops

\* C19: connect always terminates after at most MAX_CONNECTION_ATTEMPTS
\* handshake attempts: it returns on the first successful attempt, and if
\* all attempts fail it raises, with is_healthy false.
C19_ConnectTerminates ==
    /\ [](ConnectBounded)
    /\ (connect.pc # "idle") ~> (connect.pc = "idle")

\* connect has raised after its fifth attempt
C19_Witness ==
    /\ connect.pc = "idle"
    /\ connect.result = "raised"
    /\ connect.attempt = MAX_CONNECTION_ATTEMPTS - 1

----------------------------------------------------------------------------
(* Claims about ClientOptimized and its pool, checked under SpecClient. *)

\* C18: get_connection never returns, by reuse, an active connection that
\* has suffered 4 or more consecutive failures: a call that returns at once
\* without taking a connection from the queue never returns such a one.
C18_NoDegradedReuse ==
    [][\A t \in Callers :
          (/\ pc[t] = "idle"
           /\ pc'[t] = "holding"
           /\ available_connections' = available_connections)
          => held'[t] \notin degraded]_vars

\* no background task is running once stop has returned, and none while
\* stop closes the pooled connections
TasksOver ==
    client.pc \in {"closing", "stopped"} =>
        /\ client.bp \in {"none", "done"}
        /\ client.cleanup \in {"none", "done"}

\* C20: after stop() has returned, no background task started by start() is
\* still running or takes a further step on the pool, and each was awaited
\* to completion before the pooled connections were closed.
C20_TasksStopped ==
    /\ [](TasksOver)
    /\ [][client.pc = "stopped" => sweep' = sweep]_vars

\* C27: when a batch of two or more requests is flushed, the wire exchange
\* carries exactly the batch's member requests, one message per member in
\* submission order.
C27_ExchangeCarriesMembers ==
    \A t \in Tasks :
        (proc[t].batch # NoBatch /\ Len(proc[t].sent) > 1) =>
            proc[t].wire = batches[proc[t].batch].submitted

\* C28: on a successful exchange of a batch of two or more, a list with one
\* result per member completes the i-th member's pending result with the
\* i-th element and a single non-list result completes every member's
\* pending result with that result: no pending result is left or failed.
C28_ResultsDistributed ==
    [][\A t \in Tasks :
          /\ (ExchangeDone(t, "list") /\ Len(proc[t].sent) > 1) =>
                \A r \in MembersOf(t) :
                    future[r] = "pending" => future'[r] = "result"
          /\ (ExchangeDone(t, "single") /\ Len(proc[t].sent) > 1) =>
                \A r \in MembersOf(t) :
                    future[r] = "pending" => future'[r] = "shared"]_vars

\* C29: each RequestBatch is dispatched in at most one wire exchange: no two
\* tasks are suspended in _process_batch on the same batch.
C29_OneExchangePerBatch ==
    \A t1, t2 \in Tasks :
        (t1 # t2 /\ proc[t1].batch # NoBatch) => proc[t1].batch # proc[t2].batch

\* the active connections get_connection(dc) could return by reuse
ReuseCandidates(dc) ==
    {c \in SeqToSet(active_connections) :
        Reusable(connection_stats, conn_dc, c, dc, now)}

\* get_connection creates a connection for an endpoint only when none of
\* that endpoint is below the reuse ceiling, and usage counts never go
\* down: at most one active connection per endpoint is below the ceiling,
\* even when the endpoint has several active connections
OneReuseCandidate ==
    \A dc \in DCs : Cardinality(ReuseCandidates(dc)) <= 1

\* two active connections of one endpoint, the older one at the ceiling
SeveralPerEndpoint ==
    \E c, d \in SeqToSet(active_connections) :
        /\ c # d
        /\ conn_dc[c] = conn_dc[d]
        /\ ReuseCandidates(conn_dc[c]) = {d}

\* C25: if connecting a new connection fails inside get_connection, the
\* error propagates to that caller, the active set and the available queue
\* are left unchanged, and the pool lock is released, so that the calls of
\* other callers can still go on.
C25_ConnectFailureContained ==
    [][\A t \in Callers :
          (pc[t] = "connecting" /\ pc'[t] = "failed") =>
              /\ active_connections' = active_connections
              /\ available_connections' = available_connections
              /\ connection_stats' = connection_stats
              /\ held'[t] = NoConn
              /\ lock' = "free"]_vars

\* a get_connection call has failed in connect, and after it another caller
\* has had a connection created (the pool holds one connection at most)
C25_Witness ==
    /\ max_connections = 1
    /\ \E t, u \in Callers :
           /\ pc[t] = "failed"
           /\ pc[u] = "holding"
           /\ held[u] \in SeqToSet(active_connections)
           /\ held[u] \notin closed
           /\ StatsOf(connection_stats, held[u], now).usage_count = 0

----------------------------------------------------------------------------
(* Claims about ClientOptimized.invoke, checked under SpecInvoke. *)

\* C26: invoke stores a result in the cache only when the request kind is
\* in the read-only allow-list, and no call of a kind outside the allow-list
\* is ever answered from the cache.
C26_OnlyAllowListCached ==
    /\ \A k \in DOMAIN cache : KindOfKey(k) \in CacheableTypes
    /\ \A i \in Invokers :
           calls[i].outcome = "cached" => calls[i].kind \in CacheableTypes

\* one call was answered from the cache while a call of a kind outside the
\* allow-list got a fresh result
C26_Witness ==
    \E i, j \in Invokers :
        /\ calls[i].outcome = "cached"
        /\ calls[j].outcome = "fresh"
        /\ calls[j].has_dict
        /\ calls[j].kind \notin CacheableTypes

----------------------------------------------------------------------------
(* Claims about OptimizedSession's start and stop, checked under            *)
(* SpecLifecycle.                                                          *)

\* C21: stop() cancels the batch-processor task and the health-monitor task
\* and each has terminated before the base session teardown begins, whether
\* the tasks were running, already finished or never started.
C21_TasksJoinedBeforeTeardown ==
    session.pc \in {"teardown", "stopped"} =>
        /\ session.bp \in Terminated
        /\ session.hm \in Terminated

\* the teardown begins after both running tasks were cancelled and joined
C21_Witness ==
    /\ session.pc = "teardown"
    /\ session.bp = "cancelled"
    /\ session.hm = "cancelled"

----------------------------------------------------------------------------
(* Claims about OptimizedSession.send and the adaptive timeout, checked    *)
(* under SpecSession.                                                      *)

\* C22: the timeout send uses for a call with no explicit timeout is at
\* least WAIT_TIMEOUT and at most 120 seconds, after any sequence of
\* responses, flood-wait signals and health-monitor rounds.
C22_DefaultTimeoutInRange ==
    \A s \in Senders :
        (sends[s].pc = "dispatched" /\ sends[s].default) =>
            /\ sends[s].timeout >= WAIT_TIMEOUT
            /\ sends[s].timeout <= TimeoutCap

\* C23: handling a flood-wait multiplies the adaptive wait timeout by 1.5
\* exactly when more than 3 flood-waits, the current one included, occurred
\* within the trailing 5 minutes, and leaves it unchanged otherwise.
C23_MultipliedIffRecent ==
    [][metrics'.flood_waits = metrics.flood_waits + 1 =>
         adaptive_wait_timeout' =
             IF Cardinality(RecentFloods(flood_wait_history', now)) > RecentGate
             THEN (adaptive_wait_timeout * 3) \div 2
             ELSE adaptive_wait_timeout]_vars

\* C24: send dispatches a call once; when the dispatch fails, send counts it
\* (flood_waits for a flood-wait, errors_count otherwise, never both) and
\* raises that same error, so a call ends in exactly one of a returned
\* result or one raised error.
C24_FailureRecordedOnceAndRaised ==
    [][\A s \in Senders :
         (sends[s].pc = "dispatched" /\ sends'[s].pc = "idle") =>
             LET end == sends'[s]
                 floods == metrics'.flood_waits - metrics.flood_waits
                 errors == metrics'.errors_count - metrics.errors_count
             IN /\ end.dispatches = 1
                /\ end.returned # (end.raised # "none")
                /\ end.raised = end.failure
                /\ end.returned => (floods = 0 /\ errors = 0)
                /\ end.raised = "FloodWait" => (floods = 1 /\ errors = 0)
                /\ end.raised \in ErrorTypes => (floods = 0 /\ errors = 1)]_vars

\* a call ended in a flood-wait after one call returned and one failed
\* otherwise
C24_Witness ==
    \E s \in Senders :
        /\ sends[s].pc = "idle"
        /\ sends[s].raised = "FloodWait"
        /\ metrics = [responses_received |-> 1, errors_count |-> 1, flood_waits |-> 1]

----------------------------------------------------------------------------
(* Further claims about ConnectionPool, checked under SpecPool. *)

\* get_connection returns a connection to task t in this step
Handed(t) == held[t] = NoConn /\ held'[t] # NoConn

\* C31: every return of a connection by get_connection (created, reused or
\* taken from the queue) increments that connection's usage counter, and no
\* connection is handed out once its usage count has reached the ceiling.
C31_EveryReturnCounted ==
    [][\A t \in Callers :
         Handed(t) =>
             LET before == StatsOf(connection_stats, held'[t], now).usage_count
                 after == StatsOf(connection_stats', held'[t], now).usage_count
             IN /\ before < ReuseCeiling
                /\ after = before + 1]_vars

\* release_connection of task t runs in this step
Releases(t) == pc[t] = "releasing" /\ pc'[t] = "idle"

\* C32: release_connection on a connection in the active set appends it to
\* the available queue and stamps its last-used time, changing nothing else;
\* on a connection that is not in the active set it leaves the whole pool
\* state unchanged.
C32_ReleaseFrame ==
    [][\A t \in Callers :
         Releases(t) =>
             /\ UNCHANGED <<active_connections, conn_dc, closed, lock, held,
                            nextConn, sweep>>
             /\ IF arg[t] \in SeqToSet(active_connections)
                THEN /\ available_connections' =
                            Append(available_connections, arg[t])
                     /\ connection_stats' =
                            [connection_stats EXCEPT ![arg[t]].last_used = now]
                ELSE UNCHANGED <<available_connections, connection_stats>>]_vars

\* the one connection ever created was swept while checked out and its
\* holder has released it since: it is closed, nobody holds it and the
\* release did not queue it
C32_Witness ==
    /\ nextConn = 2
    /\ 1 \in closed
    /\ available_connections = <<>>
    /\ \A t \in Callers : pc[t] = "idle" /\ held[t] = NoConn

\* C38: every element of the available queue is a connection of the active
\* set and appears in the queue at most once.
C38_QueueActiveAndDistinct ==
    /\ \A i \in 1..Len(available_connections) :
           available_connections[i] \in SeqToSet(active_connections)
    /\ \A i, j \in 1..Len(available_connections) :
           i # j => available_connections[i] # available_connections[j]

----------------------------------------------------------------------------
(* A further claim about ClientOptimized and its pool, checked under       *)
(* SpecClient.                                                             *)

\* C40: stop() and cleanup_idle_connections() always complete, even while a
\* get_connection call waits on a saturated pool with an empty queue: the
\* waiting call never keeps the pool lock from a stop() or a sweep that
\* waits for it.  (Nothing enters the queue while the lock is held, so a
\* state that breaks this is never left.)
C40_WaiterYieldsLock ==
    \A t \in Callers :
        (pc[t] = "waiting" /\ available_connections = <<>>) =>
            ~(lock = t /\ (client.pc = "lockwait" \/ sweep.pc = "lockwait"))

----------------------------------------------------------------------------
(* Further claims about OptimizedConnection, checked under SpecConnClose   *)
(* and SpecConn.                                                           *)

\* C33: close() cancels the keepalive loop and the loop has terminated
\* before the transport is closed: no keepalive ping is issued once the
\* transport close has begun, whether the loop was sleeping, already
\* finished or never started.
C33_KeepaliveJoinedBeforeClose ==
    /\ [](close_call \in {"transport", "closed"} => KeepaliveDone(keepalive_task))
    /\ [][KeepalivePing => close_call = "idle"]_vars

\* the transport close begins after a keepalive loop that had pinged was
\* cancelled and joined
C33_Witness ==
    /\ close_call = "transport"
    /\ keepalive_task = "cancelled"
    /\ last_ping > 0

\* connect() returns successfully in this step
ConnectReturns ==
    /\ connect.pc # "idle"
    /\ connect'.pc = "idle"
    /\ connect'.result = "returned"

\* C34: whenever connect() returns successfully, also after failed attempts
\* in the same call or on a reconnect, consecutive_errors is 0, is_healthy
\* is true, connection_quality is back at 1.0 and one keepalive loop runs
\* (no send or recv having run since the handshake succeeded).
C34_ResetOnConnect ==
    [][(ConnectReturns /\ lastOp.kind = "connected") =>
         /\ consecutive_errors' = 0
         /\ is_healthy'
         /\ connection_quality' = QScale
         /\ keepalive_task' = "running"]_vars

\* C39: when connect() returns successfully, the transport it has just
\* connected is still open.
C39_OpenOnReturn ==
    [][ConnectReturns => protocol' = "open"]_vars

----------------------------------------------------------------------------
(* Further claims about OptimizedSession, checked under SpecBackoff and    *)
(* SpecSession.                                                            *)

\* C35: after any sequence of failed sends every entry of the error-backoff
\* table is within [1, 60] seconds (0 stands for no entry); each further
\* failure of the same error type multiplies its entry by 1.5, clamped to
\* that range, and the entries of the other error types are unchanged.
C35_BackoffClamped ==
    /\ [](\A e \in ErrorTypes :
             error_backoff[e] # 0 =>
                 (error_backoff[e] >= BackoffFloor /\ error_backoff[e] <= BackoffCap))
    /\ [][\A s \in Senders :
            (sends[s].pc = "dispatched" /\ sends'[s].raised \in ErrorTypes) =>
                \A e \in ErrorTypes :
                    error_backoff'[e] =
                        IF e # sends'[s].raised THEN error_backoff[e]
                        ELSE IF error_backoff[e] = 0 THEN BackoffFloor
                        ELSE IF (error_backoff[e] * 3) \div 2 > BackoffCap
                        THEN BackoffCap
                        ELSE (error_backoff[e] * 3) \div 2]_vars

\* a twelfth failure of one error type has brought its entry to the cap
C35_Witness ==
    /\ metrics.errors_count = 12
    /\ \E e \in ErrorTypes : error_backoff[e] = BackoffCap

\* C36: after a health-monitor round that sees a score below 0.5 the wait
\* timeout target is twice WAIT_TIMEOUT and a send without an explicit
\* timeout uses at least that; after a round with a score of at least 0.5
\* the target is 95% of its previous value, but not below WAIT_TIMEOUT.
C36_MonitorSetsTimeout ==
    [][/\ HealthMonitorRound(FALSE) =>
            /\ adaptive_wait_timeout' = 2 * WAIT_TIMEOUT
            /\ GetAdaptiveTimeout(response_times', adaptive_wait_timeout')
                   >= 2 * WAIT_TIMEOUT
       /\ HealthMonitorRound(TRUE) =>
            /\ adaptive_wait_timeout' >= WAIT_TIMEOUT
            /\ \/ adaptive_wait_timeout' = (adaptive_wait_timeout * 95) \div 100
               \/ adaptive_wait_timeout' = WAIT_TIMEOUT]_vars

----------------------------------------------------------------------------
(* A further claim about OptimizedCache, checked under SpecCache. *)

\* C37: the recency order and the entry map describe the same key set:
\* after any sequence of get and set calls every cached key appears exactly
\* once in access_order and access_order holds no key that is not cached,
\* so that deque.remove and the eviction's popleft and del never miss.
C37_OrderMatchesEntries ==
    /\ SeqToSet(access_order) = DOMAIN cache
    /\ Len(access_order) = Cardinality(DOMAIN cache)

\* a set has just evicted the oldest key of a full cache of two entries,
\* after time has passed
C37_Witness ==
    /\ cacheOp.op = "set"
    /\ max_size > 1
    /\ now > 0
    /\ Len(touchLog) > max_size
    /\ Cardinality(DOMAIN cache) = max_size
    /\ access_order[Len(access_order)] = cacheOp.key

====
